---- MODULE Spec2Model ----
(***************************************************************************)
(* Model of genetic_algorithm.ipynb: the two fitness evaluators            *)
(* (fitness_1, fitness_2 / get_slice_score, respect_defects), the          *)
(* population evolver (evolve_pop) and the driver (genetic_algorithm).     *)
(*                                                                         *)
(* Conventions.  A chromosome is a sequence; Python position p is element  *)
(* p + 1.  Ranges [start, end) keep Python's 0-based positions.  A Python  *)
(* exception is the outcome err = TRUE of the operator that raises it.     *)
(* Scores of fitness_2 are fractions; every score of the model is kept as  *)
(* an exact numerator over ScoreDen, a common multiple of the squared       *)
(* required lengths; the rounding of the floats is not modelled.           *)
(* Probabilities (mutation_rate, elite_ratio, random.random()) are         *)
(* numerators over RandDen; these are exact in binary floating point.      *)
(*                                                                         *)
(* Specifications: SpecFit applies the evaluators to one chromosome, Spec  *)
(* runs genetic_algorithm, SpecCfg runs it on a configuration error,       *)
(* SpecCross is one crossover and SpecMut one mutation of evolve_pop.  The *)
(* variables a specification does not use keep the value None.             *)
(***************************************************************************)
EXTENDS Integers, Sequences, FiniteSets, TLC

VARIABLES
    pc,              \* position of the modelled call
    biscuits_list,   \* item catalog: id -> [value, size, threshold]
    roll_defects,    \* defect table: position -> (class -> count)
    ind,             \* chromosome handed to the evaluators
    score_1,         \* result of fitness_1(ind, ...), with its defect checks
    score_2,         \* result of fitness_2(ind, ...), with its flushes and checks
    population,      \* genetic_algorithm: current population
    pop_size, mutation_rate, elite_ratio, roll_size, max_iter, fitness, rtype,
    gen,             \* genetic_algorithm: loop index i
    elites,          \* evolve_pop: elites
    new_population,  \* evolve_pop: new_population
    parent1, parent2, break_points, coins, child,   \* evolve_pop: one crossover
    muted_child, draws                              \* evolve_pop: one mutation

fitVars == <<ind, score_1, score_2>>
gaVars == <<population, pop_size, mutation_rate, elite_ratio, roll_size,
            max_iter, fitness, rtype, gen, elites, new_population>>
childVars == <<parent1, parent2, break_points, coins, child, muted_child, draws>>
vars == <<pc, biscuits_list, roll_defects, fitVars, gaVars, childVars>>

(***************************************************************************)
(* Bounds of the model.                                                    *)
(***************************************************************************)
MaxLen == 4        \* longest chromosome handed to the evaluators
MaxPop == 2        \* largest pop_size
MaxRoll == 3       \* largest roll_size of a run
MaxIter == 2       \* largest max_iter
MaxCross == 4      \* longest parent handed to the crossover
MaxMut == 3        \* longest child handed to the mutation

(***************************************************************************)
(* Program constants.                                                      *)
(***************************************************************************)
EMPTY == -1        \* the "no biscuit" identifier
NO_ELEM == -2      \* fitness_1: last_elem before the first position
GENE_LOW == -1     \* random.randint(-1, 3), np.random.randint(-1, 4)
GENE_HIGH == 3
ScoreDen == 1600    \* denominator of every score of the model
RandDen == 4       \* denominator of every probability of the model

None == "None"
Classes == {"a", "b", "c"}
ClassOrder == <<"a", "b", "c">>   \* iteration order of pos_defects.keys()

Min(x, y) == IF x < y THEN x ELSE y
Max(x, y) == IF x > y THEN x ELSE y

RECURSIVE SumTo(_, _, _)
\* sum of F[k] for k in lo..hi
SumTo(F, lo, hi) == IF lo > hi THEN 0 ELSE F[lo] + SumTo(F, lo + 1, hi)

Ok(v) == [err |-> FALSE, val |-> v]
Raise == [err |-> TRUE, val |-> 0]

(***************************************************************************)
(* respect_defects(threshold, start, end, roll_defects).                   *)
(* The sums run over the classes a, b, c; a position missing from the      *)
(* table, a class of the table outside a, b, c, or a class missing from    *)
(* threshold when all() reaches it, raises KeyError.                       *)
(***************************************************************************)
pos_defects(start, end, rd) ==
    [key \in Classes |->
        SumTo([pos \in start..(end - 1) |->
                  IF key \in DOMAIN rd[pos] THEN rd[pos][key] ELSE 0],
              start, end - 1)]

RECURSIVE AllWithin(_, _, _)
\* all(threshold[key] >= pos_defects[key] for key in pos_defects.keys()),
\* from the k-th key on: "True", "False" or "KeyError"
AllWithin(threshold, pd, k) ==
    IF k > Len(ClassOrder) THEN "True"
    ELSE LET key == ClassOrder[k] IN
         IF key \notin DOMAIN threshold THEN "KeyError"
         ELSE IF threshold[key] >= pd[key] THEN AllWithin(threshold, pd, k + 1)
         ELSE "False"

respect_defects(threshold, start, end, rd) ==
    IF \E pos \in start..(end - 1) :
          pos \notin DOMAIN rd \/ ~(DOMAIN rd[pos] \subseteq Classes)
    THEN "KeyError"
    ELSE AllWithin(threshold, pos_defects(start, end, rd), 1)

(***************************************************************************)
(* fitness_1(ind, biscuits_list, roll_defects): one iteration of the loop  *)
(* on st = [score, size, last_elem, err, checks], then the loop, then the  *)
(* flush.  checks lists the respect_defects calls in order:                *)
(* [elem, start, end, ok].                                                 *)
(***************************************************************************)
Check(elem, start, end, ok) ==
    [elem |-> elem, start |-> start, end |-> end, ok |-> ok]

\* F1Failed without the "size -= 1" of the failed defect check
F1FailedNoRetry(score, size, elem, checks) ==
    [score |-> score - 1, size |-> size, last_elem |-> elem, err |-> FALSE,
     checks |-> checks]

\* F1Failed without the "score -= 1" of the failed defect check
F1FailedFree(score, size, elem, checks) ==
    [score |-> score, size |-> size - 1, last_elem |-> elem, err |-> FALSE,
     checks |-> checks]

\* else: score -= 1; size -= 1
F1Failed(score, size, elem, checks) ==
    [score |-> score - 1, size |-> size - 1, last_elem |-> elem, err |-> FALSE,
     checks |-> checks]

\* the branch "if size == biscuits_list[elem]['size']", ok being what
\* respect_defects(threshold, i - size + 1, i + 1, roll_defects) returned
F1Checked(st, score, size, elem, i, value, ok) ==
    LET checks == Append(st.checks, Check(elem, i - size + 1, i + 1, ok))
    IN  IF ok = "KeyError" THEN [st EXCEPT !.err = TRUE, !.checks = checks]
        ELSE IF ok = "True"
        THEN [score |-> score + value, size |-> 0, last_elem |-> elem,
              err |-> FALSE, checks |-> checks]
        ELSE F1Failed(score, size, elem, checks)

F1Step(st, i, elem, bl, rd) ==
    IF st.err THEN st
    ELSE IF elem = EMPTY
    THEN [st EXCEPT !.score = st.score - (1 + st.size), !.size = 0,
                    !.last_elem = elem]
    ELSE LET size == IF elem # st.last_elem THEN 1 ELSE st.size + 1
             score == IF elem # st.last_elem THEN st.score - st.size ELSE st.score
         IN  IF elem \notin DOMAIN bl THEN [st EXCEPT !.err = TRUE]
             ELSE IF size = bl[elem].size
             THEN F1Checked(st, score, size, elem, i, bl[elem].value,
                      respect_defects(bl[elem].threshold, i - size + 1, i + 1, rd))
             ELSE [score |-> score, size |-> size, last_elem |-> elem,
                   err |-> FALSE, checks |-> st.checks]

RECURSIVE F1Loop(_, _, _, _, _)
F1Loop(st, i, chrom, bl, rd) ==
    IF i >= Len(chrom) THEN st
    ELSE F1Loop(F1Step(st, i, chrom[i + 1], bl, rd), i + 1, chrom, bl, rd)

\* score -= size after the loop; the result with its defect checks
F1Result(st) ==
    [err |-> st.err,
     val |-> IF st.err THEN 0 ELSE (st.score - st.size) * ScoreDen,
     checks |-> st.checks]

\* the evaluation with its defect checks: [err, val, checks]
fitness_1_run(chrom, bl, rd) ==
    F1Result(F1Loop([score |-> 0, size |-> 0, last_elem |-> NO_ELEM,
                     err |-> FALSE, checks |-> <<>>], 0, chrom, bl, rd))

\* what the caller sees: the score or the exception
Outcome(r) == IF r.err THEN Raise ELSE Ok(r.val)

fitness_1(chrom, bl, rd) == Outcome(fitness_1_run(chrom, bl, rd))

(***************************************************************************)
(* get_slice_score(position, size, lb_size, lb_value, lb_threshold,        *)
(* roll_defects); lb is the catalog entry [size, value, threshold] of the  *)
(* run's type.  One pass of the inner while loop over the list unassigned  *)
(* (acc = [score, assigned, taken, err, checks]), then the outer loop.     *)
(* taken lists the sub-ranges [start, len] in the order the code credits   *)
(* them, checks the respect_defects calls; elem names the run's type.      *)
(***************************************************************************)
SeqRange(s) == {s[k] : k \in 1..Len(s)}

\* the list range(lo, hi)
RangeList(lo, hi) == [k \in 1..Max(hi - lo, 0) |-> lo + k - 1]

\* SliceCredit without the square of the ratio
SliceCreditLinear(last_size, lb) ==
    (last_size * lb.value * ScoreDen) \div lb.size

\* (last_size/lb_size)**2 * lb_value, as a numerator over ScoreDen
SliceCredit(last_size, lb) ==
    (last_size * last_size * lb.value * ScoreDen) \div (lb.size * lb.size)

RECURSIVE SlicePass(_, _, _, _, _, _, _)
RECURSIVE SliceChecked(_, _, _, _, _, _, _, _, _)
\* the branch "if all(elem in unassigned for elem in slice)", ok being what
\* respect_defects(lb_threshold, start, end, roll_defects) returned
SliceChecked(unassigned, j, last_size, acc, lb, rd, elem, start, ok) ==
    LET checks == Append(acc.checks, Check(elem, start, start + last_size, ok))
    IN  IF ok = "KeyError" THEN [acc EXCEPT !.err = TRUE, !.checks = checks]
        ELSE IF ok = "True"
        THEN SlicePass(unassigned, j + last_size, last_size,
                 [score |-> acc.score + SliceCredit(last_size, lb),
                  assigned |-> acc.assigned \o RangeList(start, start + last_size),
                  taken |-> Append(acc.taken, [start |-> start, len |-> last_size]),
                  err |-> FALSE, checks |-> checks], lb, rd, elem)
        ELSE SlicePass(unassigned, j + 1, last_size,
                 [acc EXCEPT !.checks = checks], lb, rd, elem)

SlicePass(unassigned, j, last_size, acc, lb, rd, elem) ==
    IF acc.err \/ j > Len(unassigned) - last_size THEN acc
    ELSE LET start == unassigned[j + 1]
             end == start + last_size
         IN  IF \A e \in start..(end - 1) : e \in SeqRange(unassigned)
             THEN SliceChecked(unassigned, j, last_size, acc, lb, rd, elem, start,
                      respect_defects(lb.threshold, start, end, rd))
             ELSE SlicePass(unassigned, j + 1, last_size, acc, lb, rd, elem)

RECURSIVE SliceLoop(_, _, _, _, _, _, _, _)
\* SliceNext without "unassigned.remove(assi)"
SliceNextKeep(unassigned, last_size, acc, lb, rd, elem) ==
    IF acc.err
    THEN [err |-> TRUE, val |-> 0, taken |-> <<>>, left |-> <<>>,
          checks |-> acc.checks]
    ELSE SliceLoop(unassigned, last_size - 1, acc.score, acc.taken, acc.checks,
                   lb, rd, elem)

\* after one pass acc of the inner loop: drop the assigned positions and go
\* on with last_size - 1
SliceNext(unassigned, last_size, acc, lb, rd, elem) ==
    IF acc.err
    THEN [err |-> TRUE, val |-> 0, taken |-> <<>>, left |-> <<>>,
          checks |-> acc.checks]
    ELSE SliceLoop(SelectSeq(unassigned, LAMBDA p : p \notin SeqRange(acc.assigned)),
                   last_size - 1, acc.score, acc.taken, acc.checks, lb, rd, elem)

SliceLoop(unassigned, last_size, score, taken, checks, lb, rd, elem) ==
    IF unassigned = <<>> \/ last_size = 0
    THEN [err |-> FALSE, val |-> score - Len(unassigned) * ScoreDen,
          taken |-> taken, left |-> unassigned, checks |-> checks]
    ELSE SliceNext(unassigned, last_size,
                   SlicePass(unassigned, 0, last_size,
                       [score |-> score, assigned |-> <<>>, taken |-> taken,
                        err |-> FALSE, checks |-> checks], lb, rd, elem),
                   lb, rd, elem)

get_slice_score(position, size, lb, rd, elem) ==
    SliceLoop(RangeList(position - size, position), Min(lb.size, size), 0,
              <<>>, <<>>, lb, rd, elem)

(***************************************************************************)
(* fitness_2(ind, biscuits_list, roll_defects): one iteration of the loop  *)
(* on st = [score, size, last_elem, err, calls, checks], then the loop,    *)
(* then the final get_slice_score.  calls lists the flushed runs in order: *)
(* [position, size, elem, val, slice, taken], val being what the flush     *)
(* added to the score and slice telling whether get_slice_score did it.    *)
(***************************************************************************)
\* score += get_slice_score(...), r being what get_slice_score returned
F2Credit(st, position, r) ==
    IF r.err
    THEN [st EXCEPT !.err = TRUE, !.checks = st.checks \o r.checks]
    ELSE [st EXCEPT !.score = st.score + r.val,
                    !.checks = st.checks \o r.checks,
                    !.calls = Append(st.calls,
                        [position |-> position, size |-> st.size,
                         elem |-> st.last_elem, val |-> r.val,
                         slice |-> TRUE, taken |-> r.taken])]

F2Flush(st, position, bl, rd, final) ==
    IF st.last_elem = EMPTY /\ ~final
    THEN [st EXCEPT !.score = st.score - st.size * ScoreDen,
                    !.calls = Append(st.calls,
                        [position |-> position, size |-> st.size,
                         elem |-> st.last_elem, val |-> -(st.size * ScoreDen),
                         slice |-> FALSE, taken |-> <<>>])]
    ELSE IF st.last_elem \notin DOMAIN bl THEN [st EXCEPT !.err = TRUE]
    ELSE F2Credit(st, position,
             get_slice_score(position, st.size, bl[st.last_elem], rd, st.last_elem))

\* size = 1; last_elem = elem, after the flush of the run that ended
F2Restart(fl, elem) == [fl EXCEPT !.size = 1, !.last_elem = elem]

F2Step(st, i, elem, bl, rd) ==
    IF st.err THEN st
    ELSE IF elem = st.last_elem THEN [st EXCEPT !.size = st.size + 1]
    ELSE F2Restart(F2Flush(st, i, bl, rd, FALSE), elem)

RECURSIVE F2Loop(_, _, _, _, _)
F2Loop(st, i, chrom, bl, rd) ==
    IF i >= Len(chrom) THEN st
    ELSE F2Loop(F2Step(st, i, chrom[i + 1], bl, rd), i + 1, chrom, bl, rd)

\* score += get_slice_score(len(ind), ...) after the loop
F2Final(st, n, bl, rd) == IF st.err THEN st ELSE F2Flush(st, n, bl, rd, TRUE)

F2Result(fin) ==
    [err |-> fin.err, val |-> IF fin.err THEN 0 ELSE fin.score,
     calls |-> fin.calls, checks |-> fin.checks]

\* the evaluation with its flushes and defect checks: [err, val, calls, checks]
fitness_2_run(chrom, bl, rd) ==
    IF chrom = <<>>
    THEN [err |-> TRUE, val |-> 0, calls |-> <<>>, checks |-> <<>>]
    ELSE F2Result(F2Final(F2Loop([score |-> 0, size |-> 0, last_elem |-> chrom[1],
                                  err |-> FALSE, calls |-> <<>>, checks |-> <<>>],
                                 0, chrom, bl, rd),
                          Len(chrom), bl, rd))

fitness_2(chrom, bl, rd) == Outcome(fitness_2_run(chrom, bl, rd))

(***************************************************************************)
(* Inputs of the evaluators: catalogs, defect tables, chromosomes.         *)
(***************************************************************************)
Thr(a, b, c) == [k \in Classes |-> IF k = "a" THEN a ELSE IF k = "b" THEN b ELSE c]

Biscuit(value, size, threshold) ==
    [value |-> value, size |-> size, threshold |-> threshold]

\* the notebook's biscuits_list
BenchCatalog ==
    (-1 :> Biscuit(-1, 1, Thr(9, 9, 9))) @@ (0 :> Biscuit(3, 4, Thr(4, 2, 3))) @@
    (1 :> Biscuit(12, 8, Thr(5, 4, 4))) @@ (2 :> Biscuit(1, 2, Thr(1, 2, 1))) @@
    (3 :> Biscuit(8, 5, Thr(4, 2, 3)))

\* the catalog of the end-to-end scenario: thresholds {} and {a: 9}
ScenarioCatalog ==
    (-1 :> Biscuit(-1, 1, <<>>)) @@ (0 :> Biscuit(3, 4, ("a" :> 9)))

\* short items with tight caps; the empty type costs 2
TightCatalog ==
    (-1 :> Biscuit(-2, 1, Thr(9, 9, 9))) @@ (0 :> Biscuit(3, 2, Thr(1, 0, 1))) @@
    (1 :> Biscuit(2, 1, Thr(0, 1, 0)))

Catalogs == {BenchCatalog, ScenarioCatalog, TightCatalog}

ZeroTable(n) == [pos \in 0..(n - 1) |-> Thr(0, 0, 0)]

SpoiledTable(n) ==
    [pos \in 0..(n - 1) |-> IF pos = 0 THEN Thr(2, 3, 0) ELSE Thr(0, 0, 0)]

DefectTables(n) ==
    { ZeroTable(n),
      [pos \in 0..(n - 1) |-> Thr(1, 0, 0)],
      SpoiledTable(n),
      [pos \in 0..(n - 1) |-> IF pos = n - 1 THEN Thr(10, 0, 0) ELSE Thr(0, 0, 0)],
      [pos \in 0..(n - 1) |-> IF pos % 2 = 1 THEN ("b" :> 1) ELSE <<>>] }

Chromosomes(bl, n) == [1..n -> DOMAIN bl]

\* the chromosomes of the two end-to-end scenarios, stripLength = 10
ScenarioFull == [p \in 1..10 |-> IF p <= 4 THEN 0 ELSE EMPTY]
ScenarioShort == [p \in 1..10 |-> IF p <= 3 THEN 0 ELSE EMPTY]

(***************************************************************************)
(* Random sources.  random.random() returns a float of [0, 1), kept as a   *)
(* numerator over RandDen; randint returns an integer of its range.  The   *)
(* model draws both from the samples below.                                *)
(***************************************************************************)
randint(lo, hi) == lo..hi
RandintDraws == randint(GENE_LOW, GENE_HIGH) \cap {-1, 2}
RandomDraws == {r \in 0..(RandDen - 1) : r \in {0, 2, 3}}

(***************************************************************************)
(* init_population(pop_size, roll_size): the populations it can return.    *)
(***************************************************************************)
init_population(n, len) == [1..n -> [1..len -> RandintDraws]]

(***************************************************************************)
(* evolve_pop: scoring and elites.                                         *)
(***************************************************************************)
Fit(f, chrom, bl, rd) ==
    IF f = "fitness_1" THEN fitness_1(chrom, bl, rd) ELSE fitness_2(chrom, bl, rd)

\* fitness_values = [fitness(ind, ...) for ind in population]
FitnessValues(pop, f, bl, rd) == [k \in 1..Len(pop) |-> Fit(f, pop[k], bl, rd)]

\* argsort sorting descending
argsortDescending(values) ==
    { perm \in [1..Len(values) -> 0..(Len(values) - 1)] :
        /\ \A a, b \in 1..Len(values) : a # b => perm[a] # perm[b]
        /\ \A a \in 1..(Len(values) - 1) :
              values[perm[a] + 1].val >= values[perm[a + 1] + 1].val }

\* np.argsort(values): the index lists (0-based) that sort values ascending;
\* the order among equal values is the sorting algorithm's
argsort(values) ==
    { perm \in [1..Len(values) -> 0..(Len(values) - 1)] :
        /\ \A a, b \in 1..Len(values) : a # b => perm[a] # perm[b]
        /\ \A a \in 1..(Len(values) - 1) :
              values[perm[a] + 1].val <= values[perm[a + 1] + 1].val }

\* int(x) for x = num / RandDen: truncation toward zero
PyInt(num) == IF num >= 0 THEN num \div RandDen ELSE -((-num) \div RandDen)

\* seq[m:] of a Python list
SliceFrom(seq, m) ==
    LET first == IF m < 0 THEN Max(Len(seq) + m, 0) ELSE Min(m, Len(seq))
    IN  SubSeq(seq, first + 1, Len(seq))

\* elite_idx taking as many indices from the low end of the sort
elite_idxLowest(perm, n, ratio) ==
    SubSeq(perm, 1, Len(SliceFrom(perm, PyInt(-(n * ratio)))))

\* elite_idx = np.argsort(fitness_values)[int(-len(population) * elite_ratio):]
elite_idx(perm, n, ratio) == SliceFrom(perm, PyInt(-(n * ratio)))

\* elites = [population[idx] for idx in elite_idx]
Elites(pop, idx) == [k \in 1..Len(idx) |-> pop[idx[k] + 1]]

(***************************************************************************)
(* evolve_pop: crossover and mutation of one child.                        *)
(***************************************************************************)
\* np.random.choice(n, size=2, replace=False, p=probabilities): every
\* probability is positive, so every ordered pair of distinct indices
ParentChoices(n) == {pr \in (0..(n - 1)) \X (0..(n - 1)) : pr[1] # pr[2]}

\* np.random.choice(len(parent1), size=3, replace=False), as a set
BreakPointChoices(len) == {S \in SUBSET (0..(len - 1)) : Cardinality(S) = 3}

\* np.insert(break_points, 0, [0, len(parent1)]) and break_points.sort()
SortedBreaks(S, len) ==
    LET asc == CHOOSE q \in [1..Cardinality(S) -> S] :
                  \A a, b \in 1..Cardinality(S) : a < b => q[a] < q[b]
    IN  <<0>> \o asc \o <<len>>

\* chosen_p = parent1 if random.random() < 0.5 else parent2
CoinOf(r) == 2 * r < RandDen

\* the coins of the four segments
CoinChoices == [1..4 -> {CoinOf(r) : r \in RandomDraws}]

\* CopySegment without the first position of the segment
CopySegmentSkipStart(acc, chosen_p, start, end) ==
    [p \in 1..Len(acc) |->
        IF start < p - 1 /\ p - 1 < end THEN chosen_p[p] ELSE acc[p]]

\* child[start:end] = chosen_p[start:end]
CopySegment(acc, chosen_p, start, end) ==
    [p \in 1..Len(acc) |->
        IF start <= p - 1 /\ p - 1 < end THEN chosen_p[p] ELSE acc[p]]

RECURSIVE CrossFrom(_, _, _, _, _, _)
\* the loop over the segments, from segment k on
CrossFrom(k, acc, p1, p2, bps, cns) ==
    IF k > Len(bps) - 1 THEN acc
    ELSE CrossFrom(k + 1,
             CopySegment(acc, IF cns[k] THEN p1 ELSE p2, bps[k], bps[k + 1]),
             p1, p2, bps, cns)

\* child = np.zeros(parent1.shape), then the segments
Crossover(p1, p2, bps, cns) ==
    CrossFrom(1, [p \in 1..Len(p1) |-> 0], p1, p2, bps, cns)

\* gene if random.random() > mutation_rate else random.randint(-1, 3);
\* d = [r, v]: the float drawn and the integer drawn when it is needed
MutGene(gene, d, rate) == IF d.r > rate THEN gene ELSE d.v

Mutate(c, ds, rate) == [p \in 1..Len(c) |-> MutGene(c[p], ds[p], rate)]

\* the draws of one gene: randint is called only when the float is <= rate
\* (v = NoDraw marks that it was not called)
NoDraw == GENE_LOW - 1

GeneDraws(rate) ==
    { [r |-> r, v |-> NoDraw] : r \in {x \in RandomDraws : x > rate} }
        \cup { [r |-> r, v |-> v] :
                 r \in {x \in RandomDraws : x <= rate}, v \in RandintDraws }

\* the children the crossover can give for the parents p1, p2
CrossChildren(p1, p2) ==
    { Crossover(p1, p2, SortedBreaks(S, Len(p1)), cns) :
        <<S, cns>> \in BreakPointChoices(Len(p1)) \X CoinChoices }

\* the muted children the mutation can give for the child c: the genes are
\* drawn independently
MutedChildren(c, rate) ==
    LET outcomes == [p \in 1..Len(c) |->
                        {MutGene(c[p], d, rate) : d \in GeneDraws(rate)}]
    IN  { m \in [1..Len(c) -> UNION {outcomes[p] : p \in 1..Len(c)}] :
            \A p \in 1..Len(c) : m[p] \in outcomes[p] }

\* the children evolve_pop can append for the parents p1, p2
Offspring(p1, p2, rate) ==
    UNION { MutedChildren(c, rate) : c \in CrossChildren(p1, p2) }

NoRun == [err |-> FALSE, val |-> 0, calls |-> <<>>, checks |-> <<>>]

FitIdle ==
    /\ ind = None /\ score_1 = NoRun /\ score_2 = NoRun
GaIdle ==
    /\ population = None /\ pop_size = None /\ mutation_rate = None
    /\ elite_ratio = None /\ roll_size = None /\ max_iter = None
    /\ fitness = None /\ rtype = None /\ gen = None /\ elites = None
    /\ new_population = None
ChildIdle ==
    /\ parent1 = None /\ parent2 = None /\ break_points = None /\ coins = None
    /\ child = None /\ muted_child = None /\ draws = None

(***************************************************************************)
(* The evaluators applied to one chromosome.                               *)
(***************************************************************************)
InitFit ==
    /\ pc = "input"
    /\ \/ /\ biscuits_list \in Catalogs
          /\ \E n \in 1..MaxLen :
                /\ ind \in Chromosomes(biscuits_list, n)
                /\ roll_defects \in DefectTables(n)
       \/ /\ biscuits_list \in {BenchCatalog, ScenarioCatalog}
          /\ ind \in {ScenarioFull, ScenarioShort}
          /\ roll_defects = ZeroTable(Len(ind))
    /\ score_1 = NoRun /\ score_2 = NoRun
    /\ GaIdle /\ ChildIdle

Fitness1 ==
    /\ pc = "input"
    /\ score_1' = fitness_1_run(ind, biscuits_list, roll_defects)
                      @@ [calls |-> <<>>]
    /\ pc' = "scored_1"
    /\ UNCHANGED <<biscuits_list, roll_defects, ind, score_2, gaVars, childVars>>

Fitness2 ==
    /\ pc = "scored_1"
    /\ score_2' = fitness_2_run(ind, biscuits_list, roll_defects)
    /\ pc' = "scored_2"
    /\ UNCHANGED <<biscuits_list, roll_defects, ind, score_1, gaVars, childVars>>

NextFit == Fitness1 \/ Fitness2

SpecFit == InitFit /\ [][NextFit]_vars

(***************************************************************************)
(* Properties of the evaluators (SpecFit).                                 *)
(***************************************************************************)
\* the maximal runs of identical identifiers: [start, len, elem]
MaximalRuns(chrom) ==
    { [start |-> st, len |-> l, elem |-> chrom[st + 1]] :
        <<st, l>> \in { w \in (0..(Len(chrom) - 1)) \X (1..Len(chrom)) :
            /\ w[1] + w[2] <= Len(chrom)
            /\ \A q \in w[1]..(w[1] + w[2] - 1) : chrom[q + 1] = chrom[w[1] + 1]
            /\ w[1] = 0 \/ chrom[w[1]] # chrom[w[1] + 1]
            /\ w[1] + w[2] = Len(chrom)
                  \/ chrom[w[1] + w[2] + 1] # chrom[w[1] + 1] } }

\* every class the threshold caps stays within its cap over [start, end)
WithinCaps(threshold, start, end, rd) ==
    \A key \in DOMAIN threshold :
        pos_defects(start, end, rd)[key] <= threshold[key]

Scored1 == pc \in {"scored_1", "scored_2"}

RECURSIVE WindowScore(_, _, _, _)
\* The score of positions p.. read as windows: at a non-empty position p
\* whose next R positions all carry p's type, a defect-valid window [p, p+R)
\* earns the value and the reading resumes at p + R; every other position
\* costs 1 and the reading resumes at p + 1.
WindowScore(p, chrom, bl, rd) ==
    IF p >= Len(chrom) THEN Ok(0)
    ELSE LET t == chrom[p + 1]
             R == bl[t].size
             step(cost, q) ==
                 LET rest == WindowScore(q, chrom, bl, rd)
                 IN  IF rest.err THEN Raise ELSE Ok(cost + rest.val)
         IN  IF t = EMPTY THEN step(-ScoreDen, p + 1)
             ELSE IF p + R <= Len(chrom)
                     /\ \A q \in p..(p + R - 1) : chrom[q + 1] = t
             THEN LET ok == respect_defects(bl[t].threshold, p, p + R, rd)
                  IN  IF ok = "KeyError" THEN Raise
                      ELSE IF ok = "True" THEN step(bl[t].value * ScoreDen, p + R)
                      ELSE step(-ScoreDen, p + 1)
             ELSE step(-ScoreDen, p + 1)

\* C3 (as amended): fitness_1 adds a type's value for every defect-valid
\* window of exactly the required length that the left-to-right reading
\* completes inside a maximal run (so a run longer than the required length
\* can earn the value, even several times), every position outside a
\* credited window costs exactly 1, and the evaluation raises exactly when
\* a window it tests raises.
C3_WindowsScore ==
    Scored1 =>
        [err |-> score_1.err, val |-> score_1.val]
            = WindowScore(0, ind, biscuits_list, roll_defects)

\* a run longer than the required length in which a window was credited
C3_Witness ==
    /\ pc = "scored_1" /\ ~score_1.err
    /\ \E r \in MaximalRuns(ind) :
          /\ r.elem # EMPTY /\ r.len > biscuits_list[r.elem].size
          /\ \E k \in 1..Len(score_1.checks) :
                /\ score_1.checks[k].ok = "True"
                /\ score_1.checks[k].start >= r.start
                /\ score_1.checks[k].end <= r.start + r.len
          /\ \E k \in 1..Len(score_1.checks) : score_1.checks[k].ok = "False"

\* the score when only maximal runs of exactly the required length count
ExactRunScore(chrom, bl, rd) ==
    LET runs == MaximalRuns(chrom)
        done == { r \in runs :
                    /\ r.elem # EMPTY /\ r.len = bl[r.elem].size
                    /\ respect_defects(bl[r.elem].threshold, r.start,
                                       r.start + r.len, rd) = "True" }
        gain[S \in SUBSET done] ==
            IF S = {} THEN 0
            ELSE LET r == CHOOSE x \in S : TRUE
                 IN  bl[r.elem].value + r.len + gain[S \ {r}]
    IN  gain[done] - Len(chrom)

\* C3 (as stated): fitness_1 adds a value only for maximal runs of exactly
\* the required length that are defect-valid; every other position costs 1.
C3_OnlyExactRuns ==
    (Scored1 /\ ~score_1.err) =>
        score_1.val = ExactRunScore(ind, biscuits_list, roll_defects) * ScoreDen

\* C4: one maximal run of a non-empty type of exactly the required length,
\* over positions without defects, and the empty type elsewhere, scores the
\* type's value minus 1 per empty position; the scenario chromosome
\* [0,0,0,0,-1,-1,-1,-1,-1,-1] under the scenario catalog scores -3.
C4_SingleRunScore ==
    Scored1 =>
        /\ \A r \in MaximalRuns(ind) :
              ( /\ r.elem # EMPTY
                /\ r.len = biscuits_list[r.elem].size
                /\ \A q \in 0..(Len(ind) - 1) :
                      IF q \in r.start..(r.start + r.len - 1)
                      THEN \A key \in DOMAIN roll_defects[q] :
                              roll_defects[q][key] = 0
                      ELSE ind[q + 1] = EMPTY )
              => /\ ~score_1.err
                 /\ score_1.val = (biscuits_list[r.elem].value
                                     - (Len(ind) - r.len)) * ScoreDen
        /\ (ind = ScenarioFull /\ biscuits_list = ScenarioCatalog)
              => (~score_1.err /\ score_1.val = -3 * ScoreDen)

\* C5: under fitness_2 every maximal run is flushed once, and a run of a
\* non-empty type shorter than the required length R whose whole range is
\* defect-valid adds exactly value * (L/R)^2, wherever it lies; three 0s of
\* type (length 4, value 3) add 1.6875 where fitness_1 charges 3.
C5_PartialRunCredit ==
    (pc = "scored_2" /\ ~score_2.err) =>
        /\ { [start |-> score_2.calls[k].position - score_2.calls[k].size,
              len |-> score_2.calls[k].size, elem |-> score_2.calls[k].elem] :
                k \in 1..Len(score_2.calls) } = MaximalRuns(ind)
        /\ Len(score_2.calls) = Cardinality(MaximalRuns(ind))
        /\ score_2.val = SumTo([k \in 1..Len(score_2.calls) |-> score_2.calls[k].val],
                               1, Len(score_2.calls))
        /\ \A k \in 1..Len(score_2.calls) :
              LET c == score_2.calls[k]
                  lb == biscuits_list[c.elem]
              IN  ( /\ c.elem # EMPTY /\ c.size < lb.size
                    /\ respect_defects(lb.threshold, c.position - c.size,
                                       c.position, roll_defects) = "True" )
                  => c.val * lb.size * lb.size = lb.value * c.size * c.size * ScoreDen
        /\ (ind = ScenarioShort /\ biscuits_list = BenchCatalog)
              => /\ score_2.calls[1].val * 10000 = 16875 * ScoreDen
                 /\ score_1.val = (-3 - 7) * ScoreDen
                 /\ score_2.val * 10000 = (16875 - 70000) * ScoreDen

\* a defect-valid short run strictly inside the chromosome was flushed
C5_Witness ==
    /\ pc = "scored_2" /\ ~score_2.err
    /\ \E k \in 1..Len(score_2.calls) :
          LET c == score_2.calls[k]
              lb == biscuits_list[c.elem]
          IN  /\ c.elem # EMPTY /\ 1 < c.size /\ c.size < lb.size
              /\ c.position - c.size > 0 /\ c.position < Len(ind)
              /\ c.val > 0
              /\ respect_defects(lb.threshold, c.position - c.size,
                                 c.position, roll_defects) = "True"

\* C6: under both evaluators every empty position costs exactly 1, whatever
\* the run's place and the empty entry's catalog fields; an all-empty
\* chromosome of N positions scores -N.
C6_EmptyCostsOne ==
    (pc = "scored_2") =>
        /\ ~score_2.err =>
              \A k \in 1..Len(score_2.calls) :
                  score_2.calls[k].elem = EMPTY
                      => score_2.calls[k].val = -(score_2.calls[k].size * ScoreDen)
        /\ (\A q \in 1..Len(ind) : ind[q] = EMPTY)
              => /\ ~score_1.err /\ score_1.val = -(Len(ind) * ScoreDen)
                 /\ ~score_2.err /\ score_2.val = -(Len(ind) * ScoreDen)

\* C7: every respect_defects call of the two evaluators covers exactly the
\* positions of the candidate item, and returns true iff every class's sum
\* over that range stays within the type's cap for it.
C7_DefectValidIff ==
    (pc = "scored_2") =>
        /\ \A k \in 1..Len(score_1.checks) :
              LET c == score_1.checks[k]
              IN  /\ c.end - c.start = biscuits_list[c.elem].size
                  /\ \A q \in c.start..(c.end - 1) : ind[q + 1] = c.elem
                  /\ c.ok \in {"True", "False"}
                  /\ c.ok = "True" <=> WithinCaps(biscuits_list[c.elem].threshold,
                                                  c.start, c.end, roll_defects)
        /\ \A k \in 1..Len(score_2.checks) :
              LET c == score_2.checks[k]
              IN  /\ c.end - c.start \in 1..biscuits_list[c.elem].size
                  /\ \A q \in c.start..(c.end - 1) : ind[q + 1] = c.elem
                  /\ c.ok \in {"True", "False"}
                  /\ c.ok = "True" <=> WithinCaps(biscuits_list[c.elem].threshold,
                                                  c.start, c.end, roll_defects)

\* the defect checks of fitness_1 that returned true
Credited1 == {k \in 1..Len(score_1.checks) : score_1.checks[k].ok = "True"}

\* the start of the leftmost defect-valid window of R positions inside the
\* maximal run r, or -1 when the run holds none
LeftmostValid(r, R, bl, rd) ==
    LET valid == { st \in r.start..(r.start + r.len - R) :
                     WithinCaps(bl[r.elem].threshold, st, st + R, rd) }
    IN  IF valid = {} THEN -1
        ELSE CHOOSE st \in valid : \A o \in valid : st <= o

\* C13: tail-retry in fitness_1.  A window [i-R+1, i+1) that fails the
\* defect check costs exactly 1 and leaves a pending run of R-1 positions:
\* if the next gene has the same type the window one position to the right
\* is the next one tested, otherwise no further window of that run is.  So
\* a maximal run earns the value for its leftmost defect-valid window of R
\* positions, every position outside a credited window costs exactly 1, and
\* a run of exactly R positions that fails costs R, also at the very end.
C13_TailRetry ==
    (Scored1 /\ ~score_1.err) =>
        /\ \A k \in 1..Len(score_1.checks) :
              LET c == score_1.checks[k]
              IN  c.ok = "False" =>
                    IF c.end < Len(ind) /\ ind[c.end + 1] = c.elem
                    THEN /\ k < Len(score_1.checks)
                         /\ score_1.checks[k + 1].elem = c.elem
                         /\ score_1.checks[k + 1].start = c.start + 1
                         /\ score_1.checks[k + 1].end = c.end + 1
                    ELSE \A m \in (k + 1)..Len(score_1.checks) :
                            score_1.checks[m].start >= c.end
        /\ \A r \in MaximalRuns(ind) :
              r.elem # EMPTY =>
                LET R == biscuits_list[r.elem].size
                    first == LeftmostValid(r, R, biscuits_list, roll_defects)
                    inRun == { k \in 1..Len(score_1.checks) :
                                 /\ score_1.checks[k].start >= r.start
                                 /\ score_1.checks[k].end <= r.start + r.len }
                IN  /\ first = -1 => \A k \in inRun : score_1.checks[k].ok = "False"
                    /\ first # -1 =>
                          /\ \E k \in inRun \cap Credited1 :
                                score_1.checks[k].start = first
                          /\ \A k \in inRun :
                                score_1.checks[k].start < first
                                    => score_1.checks[k].ok = "False"
                    /\ (r.len = R /\ first = -1) =>
                          /\ Cardinality(inRun) = 1
                          /\ (Cardinality(MaximalRuns(ind)) = 1
                                => score_1.val = -(R * ScoreDen))
        /\ score_1.val =
              SumTo([k \in 1..Len(score_1.checks) |->
                        IF k \in Credited1
                        THEN ( biscuits_list[score_1.checks[k].elem].value
                               + biscuits_list[score_1.checks[k].elem].size ) * ScoreDen
                        ELSE 0], 1, Len(score_1.checks))
              - Len(ind) * ScoreDen

\* a window failed and the retried window one position to the right, the
\* last one of the chromosome, was credited
C13_Witness ==
    /\ Scored1 /\ ~score_1.err
    /\ \E k \in 1..(Len(score_1.checks) - 1) :
          /\ score_1.checks[k].ok = "False"
          /\ score_1.checks[k].end - score_1.checks[k].start >= 2
          /\ score_1.checks[k + 1].ok = "True"
          /\ score_1.checks[k + 1].start = score_1.checks[k].start + 1
          /\ score_1.checks[k + 1].end = Len(ind)

RECURSIVE GreedyScan(_, _, _, _, _)
\* the starts of the windows of len positions that a left-to-right scan of
\* [j, end) takes: a defect-valid window is taken and the scan resumes
\* behind it, otherwise it resumes one position to the right
GreedyScan(j, end, len, threshold, rd) ==
    IF j + len > end THEN <<>>
    ELSE IF WithinCaps(threshold, j, j + len, rd)
    THEN <<j>> \o GreedyScan(j + len, end, len, threshold, rd)
    ELSE GreedyScan(j + 1, end, len, threshold, rd)

\* the positions of the sub-range t = [start, len]
Covered(t) == t.start..(t.start + t.len - 1)

\* C14: get_slice_score packs a run of L positions of a type of required
\* length R in passes of decreasing sub-range length from min(R, L) down to
\* 1, each pass left to right.  The sub-ranges taken are defect-valid,
\* pairwise disjoint and inside the run, each adds value * (length/R)^2,
\* every position outside them costs 1 (and is not defect-valid even
\* alone), and the sub-ranges of length min(R, L) are those of the greedy
\* left-to-right scan, taken before any shorter one.
C14_SlicePacking ==
    (pc = "scored_2" /\ ~score_2.err) =>
        \A n \in 1..Len(score_2.calls) :
            LET c == score_2.calls[n]
                lb == biscuits_list[c.elem]
                first == c.position - c.size
                top == Min(lb.size, c.size)
                inside == UNION {Covered(c.taken[k]) : k \in 1..Len(c.taken)}
                greedy == GreedyScan(first, c.position, top, lb.threshold,
                                     roll_defects)
            IN  c.slice =>
                  /\ \A k \in 1..Len(c.taken) :
                        /\ c.taken[k].len \in 1..top
                        /\ Covered(c.taken[k]) \subseteq first..(c.position - 1)
                        /\ WithinCaps(lb.threshold, c.taken[k].start,
                                      c.taken[k].start + c.taken[k].len, roll_defects)
                  /\ \A k, m \in 1..Len(c.taken) :
                        k < m =>
                          /\ Covered(c.taken[k]) \cap Covered(c.taken[m]) = {}
                          /\ c.taken[k].len >= c.taken[m].len
                          /\ c.taken[k].len = c.taken[m].len
                                => c.taken[k].start < c.taken[m].start
                  /\ Len(greedy) <= Len(c.taken)
                  /\ \A k \in 1..Len(c.taken) :
                        IF k <= Len(greedy)
                        THEN c.taken[k] = [start |-> greedy[k], len |-> top]
                        ELSE c.taken[k].len < top
                  /\ \A q \in (first..(c.position - 1)) \ inside :
                        ~WithinCaps(lb.threshold, q, q + 1, roll_defects)
                  /\ c.val =
                        SumTo([k \in 1..Len(c.taken) |->
                                  SliceCredit(c.taken[k].len, lb)], 1, Len(c.taken))
                        - (c.size - Cardinality(inside)) * ScoreDen

\* a run longer than the required length was packed with a full-length
\* sub-range, a shorter one and a position left over
C14_Witness ==
    /\ pc = "scored_2" /\ ~score_2.err
    /\ \E n \in 1..Len(score_2.calls) :
          LET c == score_2.calls[n]
          IN  /\ c.slice /\ c.elem # EMPTY
              /\ c.size > biscuits_list[c.elem].size
              /\ \E k, m \in 1..Len(c.taken) :
                    /\ c.taken[k].len = biscuits_list[c.elem].size
                    /\ c.taken[m].len < c.taken[k].len
              /\ SumTo([k \in 1..Len(c.taken) |-> c.taken[k].len],
                       1, Len(c.taken)) < c.size

\* the catalogs of C16: the empty type has length 1 and value -1, every
\* other type a positive value
PositiveCatalog(bl) ==
    /\ EMPTY \in DOMAIN bl /\ bl[EMPTY].size = 1 /\ bl[EMPTY].value = -1
    /\ \A t \in DOMAIN bl \ {EMPTY} : bl[t].value > 0

\* the full-length windows fitness_2 credits: [elem, start]
FullLength2 ==
    UNION { { [elem |-> score_2.calls[n].elem,
               start |-> score_2.calls[n].taken[k].start] :
                 k \in { q \in 1..Len(score_2.calls[n].taken) :
                           score_2.calls[n].taken[q].len
                               = biscuits_list[score_2.calls[n].elem].size } } :
            n \in { q \in 1..Len(score_2.calls) :
                      score_2.calls[q].slice /\ score_2.calls[q].elem # EMPTY } }

\* C16: over a catalog whose non-empty types have positive values and whose
\* empty type has length 1 and value -1, for every chromosome over the
\* catalog and every defect table, fitness_2 returns a score at least that
\* of fitness_1, and both credit the same full-length windows.
C16_Fitness2AtLeast1 ==
    ( /\ pc = "scored_2" /\ PositiveCatalog(biscuits_list)
      /\ \A p \in 1..Len(ind) : ind[p] \in DOMAIN biscuits_list
      /\ ~score_1.err ) =>
        /\ ~score_2.err
        /\ score_2.val >= score_1.val
        /\ FullLength2 = { [elem |-> score_1.checks[k].elem,
                            start |-> score_1.checks[k].start] : k \in Credited1 }

(***************************************************************************)
(* genetic_algorithm and evolve_pop as a state machine: Spec.              *)
(*   start  entry of genetic_algorithm, population is None                 *)
(*   given  entry of genetic_algorithm, population is the caller's         *)
(*   loop   head of "for i in range(max_iter)", gen = the next i           *)
(*   breed  head of evolve_pop's while loop                                *)
(*   done   genetic_algorithm has returned population                      *)
(*   error  an exception has left genetic_algorithm                        *)
(* display is None: nothing is printed.                                    *)
(***************************************************************************)
MutationRates == {0, RandDen}
EliteRatios == 0..RandDen

\* a population handed over by the caller
SuppliedPopulation(n, len) == [k \in 1..n |-> [p \in 1..len |-> EMPTY]]

Init ==
    /\ biscuits_list \in {BenchCatalog, TightCatalog}
    /\ roll_size \in 1..MaxRoll
    /\ roll_defects = SpoiledTable(roll_size)
    /\ pop_size \in 1..MaxPop
    /\ mutation_rate \in MutationRates
    /\ elite_ratio \in EliteRatios
    /\ max_iter \in 0..MaxIter
    /\ fitness \in {"fitness_1", "fitness_2"}
    /\ rtype \in {"elite", "population"}
    /\ \/ pc = "start" /\ population = None
       \/ pc = "given" /\ population = SuppliedPopulation(pop_size, roll_size)
    /\ gen = 0 /\ elites = <<>> /\ new_population = <<>>
    /\ FitIdle /\ ChildIdle

\* if population is None: population = init_population(pop_size, roll_size)
Start ==
    /\ \/ pc = "start" /\ population' \in init_population(pop_size, roll_size)
       \/ pc = "given" /\ population' = population
    /\ pc' = "loop"
    /\ UNCHANGED <<biscuits_list, roll_defects, fitVars, childVars, pop_size,
                   mutation_rate, elite_ratio, roll_size, max_iter, fitness,
                   rtype, gen, elites, new_population>>

\* evolve_pop up to "new_population = []"
EvolveBegin ==
    /\ pc = "loop" /\ gen < max_iter
    /\ \E fitness_values \in
              {FitnessValues(population, fitness, biscuits_list, roll_defects)} :
          IF \/ \E k \in 1..Len(population) : fitness_values[k].err
             \/ Len(population) = 0    \* min(fitness_values) raises ValueError
          THEN pc' = "error" /\ UNCHANGED <<elites, new_population>>
          ELSE /\ \E perm \in argsort(fitness_values) :
                     elites' = Elites(population,
                                      elite_idx(perm, Len(population), elite_ratio))
               /\ new_population' = <<>>
               /\ pc' = "breed"
    /\ UNCHANGED <<biscuits_list, roll_defects, fitVars, childVars, population,
                   pop_size, mutation_rate, elite_ratio, roll_size, max_iter,
                   fitness, rtype, gen>>

\* while len(new_population) < len(population) - len(elites)
NeedsChildOrEqual(new_pop, pop, el) == Len(new_pop) <= Len(pop) - Len(el)

NeedsChild(new_pop, pop, el) == Len(new_pop) < Len(pop) - Len(el)

\* one iteration of the while loop: the np.random.choice calls raise
\* ValueError when the population has one member or the parent two genes
BreedChild ==
    /\ pc = "breed" /\ NeedsChild(new_population, population, elites)
    /\ IF Len(population) < 2 \/ Len(population[1]) < 3
       THEN pc' = "error" /\ UNCHANGED new_population
       ELSE /\ \E pr \in ParentChoices(Len(population)) :
                  \E c \in Offspring(population[pr[1] + 1], population[pr[2] + 1],
                                     mutation_rate) :
                      new_population' = Append(new_population, c)
            /\ pc' = "breed"
    /\ UNCHANGED <<biscuits_list, roll_defects, fitVars, childVars, population,
                   pop_size, mutation_rate, elite_ratio, roll_size, max_iter,
                   fitness, rtype, gen, elites>>

\* return new_population + elites, assigned to population; next i
EvolveReturn ==
    /\ pc = "breed" /\ ~NeedsChild(new_population, population, elites)
    /\ population' = new_population \o elites
    /\ gen' = gen + 1
    /\ pc' = "loop"
    /\ UNCHANGED <<biscuits_list, roll_defects, fitVars, childVars, pop_size,
                   mutation_rate, elite_ratio, roll_size, max_iter, fitness,
                   rtype, elites, new_population>>

\* after the loop: the best element unless rtype = "population"; return
Finish ==
    /\ pc = "loop" /\ gen >= max_iter
    /\ IF rtype # "population"
       THEN \E fitness_values \in
                {FitnessValues(population, fitness, biscuits_list, roll_defects)} :
               IF \/ \E k \in 1..Len(population) : fitness_values[k].err
                  \/ Len(population) = 0    \* argsort(...)[-1] raises IndexError
               THEN pc' = "error" /\ UNCHANGED population
               ELSE /\ \E perm \in argsort(fitness_values) :
                          population' = <<population[perm[Len(perm)] + 1]>>
                    /\ pc' = "done"
       ELSE pc' = "done" /\ UNCHANGED population
    /\ UNCHANGED <<biscuits_list, roll_defects, fitVars, childVars, pop_size,
                   mutation_rate, elite_ratio, roll_size, max_iter, fitness,
                   rtype, gen, elites, new_population>>

Next == Start \/ EvolveBegin \/ BreedChild \/ EvolveReturn \/ Finish

Spec == Init /\ [][Next]_vars

(***************************************************************************)
(* Properties of genetic_algorithm and evolve_pop (Spec).                  *)
(***************************************************************************)
\* C1: every population evolve_pop returns inside genetic_algorithm has
\* exactly pop_size members: it is the offspring followed by the elites, and
\* the number of elites plus the number of offspring equals the size of the
\* population evolve_pop was given, in every generation.
C1_PopulationSize ==
    /\ pc \in {"loop", "breed"} => Len(population) = pop_size
    /\ pc = "breed" => Len(new_population) + Len(elites) <= Len(population)
    /\ (pc = "loop" /\ gen > 0) =>
          /\ population = new_population \o elites
          /\ Len(elites) + Len(new_population) = pop_size
          /\ \A k \in 1..Len(population) : Len(population[k]) = roll_size

\* the second generation has returned a population of offspring and elites
C1_Witness ==
    /\ pc = "loop" /\ gen >= 2
    /\ Len(new_population) >= 1 /\ Len(elites) >= 1

\* ceil(ratio * n) for ratio = num / RandDen
CeilRatio(num, n) == (num * n + RandDen - 1) \div RandDen

\* C2: evolve_pop carries exactly ceil(elite_ratio * population size)
\* chromosomes of its input unmodified into the next generation, and no
\* chromosome left out of them scores strictly higher than one of them.
C2_EliteCount ==
    pc = "breed" =>
        /\ Len(elites) = CeilRatio(elite_ratio, Len(population))
        /\ \E idx \in [1..Len(elites) -> 1..Len(population)] :
              /\ \A a, b \in 1..Len(elites) : a # b => idx[a] # idx[b]
              /\ \A a \in 1..Len(elites) : elites[a] = population[idx[a]]
              /\ \A a \in 1..Len(elites) :
                    \A j \in 1..Len(population) :
                        (\A b \in 1..Len(elites) : idx[b] # j)
                            => Fit(fitness, population[j], biscuits_list,
                                   roll_defects).val
                                 <= Fit(fitness, elites[a], biscuits_list,
                                        roll_defects).val

\* C10: every gene of every chromosome of every population reachable from
\* initialisation is a key of the catalog passed to the run.
C10_GenesInCatalog ==
    pc \in {"loop", "breed", "done"} =>
        \A k \in 1..Len(population) :
            \A p \in 1..Len(population[k]) :
                population[k][p] \in DOMAIN biscuits_list

\* the score of chromosome c under the run's evaluator
ScoreOf(c) == Fit(fitness, c, biscuits_list, roll_defects).val

\* the evaluator returns a score for every member of pop
AllScored(pop) ==
    \A k \in 1..Len(pop) : ~Fit(fitness, pop[k], biscuits_list, roll_defects).err

\* C11: when genetic_algorithm returns, max_iter generations have run; with
\* rtype = "population" it returns the final population as it is (the last
\* generation's offspring and elites, or the initial population when
\* max_iter = 0); otherwise it returns exactly one chromosome, a member of
\* the final population that no other member outscores.
C11_Returned ==
    [][ (pc = "loop" /\ pc' = "done") =>
            /\ gen = Max(max_iter, 0)
            /\ gen > 0 => population = new_population \o elites
            /\ IF rtype = "population"
               THEN population' = population
               ELSE /\ Len(population') = 1
                    /\ \E k \in 1..Len(population) : population'[1] = population[k]
                    /\ \A k \in 1..Len(population) :
                          ScoreOf(population[k]) <= ScoreOf(population'[1]) ]_vars

\* a run of at least one generation has returned the better of two members
\* of its final population
C11_Witness ==
    /\ pc = "done" /\ rtype # "population" /\ gen >= 1
    /\ Len(population) = 1
    /\ \E k \in 1..Len(new_population \o elites) :
          /\ AllScored(new_population \o elites)
          /\ ScoreOf((new_population \o elites)[k]) < ScoreOf(population[1])

\* the best score of a population every member of which is scored
BestScore(pop) ==
    CHOOSE v \in {ScoreOf(pop[k]) : k \in 1..Len(pop)} :
        \A k \in 1..Len(pop) : ScoreOf(pop[k]) <= v

ParentGenes == {EMPTY, 2}

InitCross ==
    /\ pc = "parents"
    /\ \E len \in 1..MaxCross :
          /\ parent1 \in [1..len -> ParentGenes]
          /\ parent2 \in [1..len -> ParentGenes]
    /\ break_points = <<>> /\ coins = <<>> /\ child = <<>>
    /\ muted_child = None /\ draws = None
    /\ biscuits_list = None /\ roll_defects = None
    /\ FitIdle /\ GaIdle

\* from "child = np.zeros(parent1.shape)" to the end of the for loop
Cross ==
    /\ pc = "parents"
    /\ IF Len(parent1) < 3
       THEN pc' = "error" /\ UNCHANGED <<break_points, coins, child>>
       ELSE /\ \E S \in BreakPointChoices(Len(parent1)) :
                  break_points' = SortedBreaks(S, Len(parent1))
            /\ coins' \in CoinChoices
            /\ child' = Crossover(parent1, parent2, break_points', coins')
            /\ pc' = "crossed"
    /\ UNCHANGED <<biscuits_list, roll_defects, fitVars, gaVars, parent1,
                   parent2, muted_child, draws>>

NextCross == Cross

SpecCross == InitCross /\ [][NextCross]_vars

\* the segment (1..4) of break_points that holds position p (0-based)
SegmentsOf(p) == {k \in 1..4 : break_points[k] <= p /\ p < break_points[k + 1]}

\* C8: the four segments delimited by the sorted 0, bp1, bp2, bp3, length
\* cover every position exactly once, each is copied position for position
\* from the parent its coin chose, so every gene of the child is the gene of
\* one of its parents at the same position, and identical parents give a
\* child equal to them.
C8_Crossover ==
    pc = "crossed" =>
        /\ Len(break_points) = 5 /\ Len(child) = Len(parent1)
        /\ break_points[1] = 0 /\ break_points[5] = Len(parent1)
        /\ \A k \in 1..4 : break_points[k] <= break_points[k + 1]
        /\ \A k \in 2..3 : break_points[k] < break_points[k + 1]
        /\ \A p \in 0..(Len(parent1) - 1) :
              /\ Cardinality(SegmentsOf(p)) = 1
              /\ \A k \in SegmentsOf(p) :
                    child[p + 1] = IF coins[k] THEN parent1[p + 1] ELSE parent2[p + 1]
              /\ child[p + 1] \in {parent1[p + 1], parent2[p + 1]}
        /\ parent1 = parent2 => child = parent1

\* parents that differ everywhere gave a child that mixes both
C8_Witness ==
    /\ pc = "crossed"
    /\ \A p \in 1..Len(parent1) : parent1[p] # parent2[p]
    /\ child # parent1 /\ child # parent2
    /\ \E k \in 1..4 : coins[k] /\ break_points[k] < break_points[k + 1]
    /\ \E k \in 1..4 : ~coins[k] /\ break_points[k] < break_points[k + 1]

(***************************************************************************)
(* The mutation of evolve_pop applied to one crossed child: SpecMut.       *)
(*   child  child holds a crossed child                                    *)
(*   muted  muted_child holds the muted child, draws the random draws      *)
(***************************************************************************)
\* mutation_rate as a numerator over RandDen: 0, 1/2, 1
ChildRates == {0, RandDen \div 2, RandDen}

InitMut ==
    /\ pc = "child"
    /\ biscuits_list \in {BenchCatalog, TightCatalog}
    /\ mutation_rate \in ChildRates
    /\ \E len \in 1..MaxMut : child \in [1..len -> {EMPTY, 0}]
    /\ muted_child = <<>> /\ draws = <<>>
    /\ parent1 = None /\ parent2 = None /\ break_points = None /\ coins = None
    /\ roll_defects = None /\ FitIdle
    /\ population = None /\ pop_size = None /\ elite_ratio = None
    /\ roll_size = None /\ max_iter = None /\ fitness = None /\ rtype = None
    /\ gen = None /\ elites = None /\ new_population = None

\* muted_child = np.array([gene if random.random() > mutation_rate
\*                         else random.randint(-1, 3) for gene in child])
Mutation ==
    /\ pc = "child"
    /\ draws' \in [1..Len(child) -> GeneDraws(mutation_rate)]
    /\ muted_child' = Mutate(child, draws', mutation_rate)
    /\ pc' = "muted"
    /\ UNCHANGED <<biscuits_list, roll_defects, fitVars, population, pop_size,
                   mutation_rate, elite_ratio, roll_size, max_iter, fitness,
                   rtype, gen, elites, new_population, parent1, parent2,
                   break_points, coins, child>>

NextMut == Mutation

SpecMut == InitMut /\ [][NextMut]_vars

\* C9: with mutation_rate = 0 no gene of the crossed child is changed,
\* whatever the draws; with mutation_rate = 1 every gene is re-drawn and the
\* new value is a key of the catalog.
C9_MutationRates ==
    pc = "muted" =>
        /\ mutation_rate = 0 => muted_child = child
        /\ mutation_rate = RandDen =>
              \A p \in 1..Len(child) :
                  /\ draws[p].v # NoDraw
                  /\ muted_child[p] = draws[p].v
                  /\ muted_child[p] \in DOMAIN biscuits_list

(***************************************************************************)
(* genetic_algorithm called with a configuration error: SpecCfg.  The      *)
(* actions are those of Spec; the defect table is the strip's.             *)
(***************************************************************************)
\* the supplied population's chromosomes do not have roll_size positions
BadPopulation ==
    /\ pc # "start"
    /\ \E k \in 1..Len(population) : Len(population[k]) # roll_size

\* pop_size <= 0, mutation_rate outside [0, 1], more elites than members,
\* roll_size <= 0, max_iter < 0, or a supplied population of another length
ConfigError ==
    \/ pop_size <= 0
    \/ mutation_rate < 0 \/ mutation_rate > RandDen
    \/ elite_ratio > RandDen
    \/ roll_size <= 0
    \/ max_iter < 0
    \/ BadPopulation

InitCfg ==
    /\ biscuits_list = BenchCatalog
    /\ roll_size \in 0..MaxRoll
    /\ roll_defects = SpoiledTable(roll_size)
    /\ pop_size \in 0..MaxPop
    /\ mutation_rate \in {-1, 0, RandDen + 1}
    /\ elite_ratio \in {RandDen \div 2, 2 * RandDen}
    /\ max_iter \in {-1, 1}
    /\ fitness \in {"fitness_1", "fitness_2"}
    /\ rtype \in {"elite", "population"}
    /\ \/ pc = "start" /\ population = None
       \/ pc = "given" /\ population = SuppliedPopulation(pop_size, roll_size + 1)
    /\ gen = 0 /\ elites = <<>> /\ new_population = <<>>
    /\ FitIdle /\ ChildIdle
    /\ ConfigError

SpecCfg == InitCfg /\ [][Next]_vars

\* C12: a configuration error is rejected before any generation runs: no
\* generation is evolved and no result is returned.
C12_ConfigRejected ==
    ConfigError => (gen = 0 /\ pc \notin {"breed", "done"})

====
